---- MODULE Spec2Model ----
(***************************************************************************)
(* AIEvaluationService: provider selection and fallback for evaluation     *)
(* and raw content generation, over the AIProviderManager registry         *)
(* (credentials, failed-provider set, forced provider, provider clients).  *)
(*                                                                         *)
(* An orchestration call is asynchronous: it runs synchronously up to the  *)
(* `await` on a provider client and is resumed when that promise settles.  *)
(* Each synchronous stretch is one action.  Several calls may be           *)
(* outstanding at once; they share the registry state.                     *)
(***************************************************************************)
EXTENDS Integers, Sequences, FiniteSets, TLC

\* Number of orchestration calls made in one run.
MaxCalls == 2

\* Calls started in the behaviours checked for termination.
MaxLiveCalls == 1

\* Submissions of one PracticeSession that pass validation.
MaxSubmits == 2

\* submitAnswer calls of one PracticeSession that return early.
MaxRejects == 2

\* Longest answer text that speech results build up.
MaxAnswerLen == 4

\* Provider identities known to the registry (keys of getProviderStatus).
Providers == {"groq", "openai", "gemini"}

\* Arguments accepted by forceProvider.
ForceArgs == {"gemini", "auto", "null"}

NoForcedProvider == "none"

\* What a provider client's promise can settle with.
Responses  == {"r1", "r2"}
Messages   == {"timeout", "quota exceeded"}
NoLimitInfo == "none"
LimitInfos == {NoLimitInfo, "rate-limit"}
Outcomes ==
    [ok : {TRUE}, response : Responses, message : {""}, limitInfo : {NoLimitInfo}]
    \cup
    [ok : {FALSE}, response : {"none"}, message : Messages, limitInfo : LimitInfos]

VARIABLES
    apiKeys,           \* credential store: provider -> has a key
    failedProviders,   \* AIProviderManager's failed-provider set
    forcedProvider,    \* AIProviderManager's forced provider
    calls,             \* the orchestration calls made so far, in invocation order
    erroredSinceReset, \* history: providers whose attempt failed since the last reset
    user,              \* PracticeSession: useAuth() gave a signed-in user
    question,          \* PracticeSession: the question has been loaded
    answer,            \* PracticeSession: the answer text
    recognition,       \* PracticeSession: a SpeechRecognition object was created
    isRecording,       \* PracticeSession: recording is on
    submitting,        \* PracticeSession: a submission is in progress
    isSubmissionLocked,\* PracticeSession: the submission lock
    rendered,          \* PracticeSession: submitting and lock as of the last render
    submissions,       \* history: submissions that passed validation, in order
    rejections,        \* history: number of submitAnswer calls that returned early
    mounted,           \* PracticeSession: the component is mounted
    engine,            \* the SpeechRecognition object: "idle" or "running"
    lastTranscript,    \* PracticeSession: lastTranscript.current
    heard,             \* history: transcripts appended since the engine last started
    appended,          \* history: transcripts appended since lastTranscript was last reset
    previous,          \* history: lastTranscript.current just before its last reset
    restartTimers,     \* number of pending restart timers
    handlers,          \* state captured by the recognition handlers
    cleanup,           \* state captured by the effect's cleanup function
    lastEnd,           \* history: the last onend event
    lastCleanup        \* history: the last run of the effect's cleanup function

speechVars ==
    <<mounted, engine, lastTranscript, heard, appended, previous, restartTimers,
      handlers, cleanup, lastEnd, lastCleanup>>

sessionVars ==
    <<user, question, answer, recognition, isRecording, submitting,
      isSubmissionLocked, rendered, submissions, rejections, speechVars>>

vars ==
    <<apiKeys, failedProviders, forcedProvider, calls, erroredSinceReset, sessionVars>>

----------------------------------------------------------------------------
(* AIProviderManager: the registry behind the service.                     *)

AIProviderManager_hasApiKeys == apiKeys

AIProviderManager_getFailedProviders == failedProviders

AIProviderManager_isProviderAvailable(provider) ==
    apiKeys[provider] /\ provider \notin failedProviders

AIProviderManager_markFailedAsNoOp(failed, provider) == failed

AIProviderManager_markFailed(failed, provider) == failed \cup {provider}

AIProviderManager_resetFailedProviders == {}

AIProviderManager_getProviderStatus ==
    [p \in Providers |->
        [available |-> AIProviderManager_isProviderAvailable(p),
         hasKey    |-> apiKeys[p],
         failed    |-> p \in failedProviders]]

AIProviderManager_forceProvider(provider) ==
    IF provider \in Providers THEN provider ELSE NoForcedProvider

AIProviderManager_showLimitWarning(warnings, limitInfo, remainingProviders) ==
    Append(warnings, [limitInfo |-> limitInfo, remaining |-> remainingProviders])

\* A provider client (evaluateWithGemini, generateRawText, ...) whose call
\* settles with `outcome`: a failure marks the provider failed before the
\* error reaches the caller.
AIProviderManager_clientSettles(failed, provider, outcome) ==
    IF outcome.ok THEN failed ELSE AIProviderManager_markFailed(failed, provider)

----------------------------------------------------------------------------
(* AIEvaluationService: the thin delegating operations.                    *)

hasApiKeys == [gemini |-> AIProviderManager_hasApiKeys["gemini"]]

forceProvider(provider) == AIProviderManager_forceProvider(provider)

getProviderStatus == AIProviderManager_getProviderStatus

resetFailedProvidersKeeps == failedProviders

resetFailedProviders == AIProviderManager_resetFailedProviders

----------------------------------------------------------------------------
(* Call records.                                                           *)

NoError == [kind |-> "none", message |-> "", lastError |-> ""]

IsAvailableEntry(p) == p.available

Names(entries) == [k \in 1..Len(entries) |-> entries[k].name]

\* entries.slice(from), 0-based as in the source.
Slice(entries, from) == SubSeq(entries, from + 1, Len(entries))

\* History: providers whose attempt has failed in some call so far.
everErrored ==
    UNION { {calls[k].settled[j].name : j \in {h \in 1..Len(calls[k].settled) :
                                                  ~calls[k].settled[h].ok}} :
            k \in 1..Len(calls) }

\* A call at its entry: locals unset, history fields snapshot the registry.
NewCall(kind) ==
    [kind               |-> kind,
     state              |-> "NotStarted",
     availableProviders |-> <<>>,
     i                  |-> 0,
     remainingProviders |-> <<>>,
     result             |-> "none",
     error              |-> NoError,
     invoked            |-> <<>>,
     inFlight           |-> 0,
     settled            |-> <<>>,
     warnings           |-> <<>>,
     startFailed        |-> failedProviders,
     startForced        |-> forcedProvider,
     startErrored       |-> erroredSinceReset,
     startEverErrored   |-> everErrored,
     failedAfter        |-> failedProviders]

Terminal == {"Success", "Failed"}
----------------------------------------------------------------------------
(* Errors thrown to the caller.                                            *)

NoProvidersEvaluate ==
    [kind      |-> "NoProvidersAvailable",
     message   |-> "No AI providers available. Please add API keys from Groq, OpenAI, or Gemini in Settings.",
     lastError |-> ""]

NoProvidersGenerate ==
    [kind      |-> "NoProvidersAvailable",
     message   |-> "No AI providers available. Please check your API keys configuration.",
     lastError |-> ""]

\* `All AI providers failed. Last error: ${error.message}`
AllProvidersFailed(message) ==
    [kind      |-> "AllProvidersFailed",
     message   |-> "All AI providers failed. Last error: ",
     lastError |-> message]

UnexpectedEvaluate ==
    [kind      |-> "FallThrough",
     message   |-> "Unexpected error: No AI providers available",
     lastError |-> ""]

UnexpectedGenerate ==
    [kind      |-> "FallThrough",
     message   |-> "All AI providers failed for content generation.",
     lastError |-> ""]

Settled(provider, outcome) ==
    [name      |-> provider.name,
     ok        |-> outcome.ok,
     response  |-> outcome.response,
     message   |-> outcome.message,
     limitInfo |-> outcome.limitInfo]

----------------------------------------------------------------------------
(* evaluateWithBestAvailable                                               *)

\* Variant: the priority list also names groq, ahead of gemini.
evalProviderPriorityWithGroq ==
    LET availableKeys == hasApiKeys IN
    << [name      |-> "groq",
        available |-> AIProviderManager_hasApiKeys["groq"]
                      /\ AIProviderManager_isProviderAvailable("groq")],
       [name      |-> "gemini",
        available |-> availableKeys.gemini
                      /\ AIProviderManager_isProviderAvailable("gemini")] >>

\* Variant: availability looks at the credential only, not at the failed set.
evalProviderPriorityKeyOnly ==
    LET availableKeys == hasApiKeys IN
    << [name |-> "gemini", available |-> availableKeys.gemini] >>

\* Variant: gemini is a candidate only while it is the forced provider.
evalProviderPriorityForcedOnly ==
    LET availableKeys == hasApiKeys IN
    << [name      |-> "gemini",
        available |-> availableKeys.gemini
                      /\ AIProviderManager_isProviderAvailable("gemini")
                      /\ forcedProvider = "gemini"] >>

evalProviderPriority ==
    LET availableKeys == hasApiKeys IN
    << [name      |-> "gemini",
        available |-> availableKeys.gemini
                      /\ AIProviderManager_isProviderAvailable("gemini")] >>

\* Variant: the priority list is used without filtering on `available`.
evalAvailableProvidersUnfiltered == evalProviderPriority

evalAvailableProviders == SelectSeq(evalProviderPriority, IsAvailableEntry)

\* Variant: the provider call is dispatched but not awaited; the loop moves on.
evalTryCandidateNoAwait(c, i) ==
    IF i < Len(c.availableProviders)
    THEN LET provider == c.availableProviders[i + 1]
         IN [c EXCEPT !.state = "Failed",
                      !.i = i + 1,
                      !.error = UnexpectedEvaluate,
                      !.invoked = Append(@, provider.name),
                      !.inFlight = @ + 1]
    ELSE [c EXCEPT !.state = "Failed", !.i = i, !.error = UnexpectedEvaluate]

\* Top of loop iteration i: take candidate i, compute the remaining ones and
\* dispatch the provider's evaluation call; past the end, fall through.
evalTryCandidate(c, i) ==
    IF i < Len(c.availableProviders)
    THEN LET provider == c.availableProviders[i + 1]
             remainingProviders == Names(Slice(c.availableProviders, i + 1))
         IN [c EXCEPT !.state = "TryingCandidate",
                      !.i = i,
                      !.remainingProviders = remainingProviders,
                      !.invoked = Append(@, provider.name),
                      !.inFlight = @ + 1]
    ELSE [c EXCEPT !.state = "Failed", !.i = i, !.error = UnexpectedEvaluate]

\* Variant: the empty-list check is missing.
evalStartNoEmptyCheck(c) ==
    evalTryCandidate([c EXCEPT !.availableProviders = evalAvailableProviders], 0)

\* The synchronous prefix of the call, up to the first await.
evalStart(c) ==
    LET availableProviders == evalAvailableProviders IN
    IF Len(availableProviders) = 0
    THEN [c EXCEPT !.state = "Failed", !.error = NoProvidersEvaluate]
    ELSE evalTryCandidate([c EXCEPT !.availableProviders = availableProviders], 0)

\* Variant: the result is not returned; the loop goes on to the next candidate.
evalOnSuccessFallsThrough(c, outcome) == evalTryCandidate(c, c.i + 1)

\* `return await ...` with the awaited call fulfilled.
evalOnSuccess(c, outcome) ==
    [c EXCEPT !.state = "Success", !.result = outcome.response]

\* Variant: the warning is shown for every failure.
evalShowLimitWarningAlways(c, error) ==
    [c EXCEPT !.warnings =
        AIProviderManager_showLimitWarning(@, error.limitInfo, c.remainingProviders)]

evalShowLimitWarning(c, error) ==
    IF error.limitInfo # NoLimitInfo
    THEN [c EXCEPT !.warnings =
             AIProviderManager_showLimitWarning(@, error.limitInfo, c.remainingProviders)]
    ELSE c

\* Variant: the aggregate error does not carry the last error's message.
evalOnFailureGenericMessage(c, error) ==
    LET c1 == evalShowLimitWarning(c, error) IN
    IF c.i = Len(c.availableProviders) - 1
    THEN [c1 EXCEPT !.state = "Failed", !.error = AllProvidersFailed("unknown")]
    ELSE evalTryCandidate(c1, c.i + 1)

\* Variant: the provider's own error is rethrown to the caller.
evalOnFailureRethrows(c, error) ==
    LET c1 == evalShowLimitWarning(c, error) IN
    [c1 EXCEPT !.state = "Failed",
               !.error = [kind |-> "ProviderError", message |-> error.message,
                          lastError |-> ""]]

\* Variant: a failed candidate is tried again.
evalOnFailureRetries(c, error) ==
    evalTryCandidate(evalShowLimitWarning(c, error), c.i)

\* Variant: a failure that carries limit info skips the last-candidate check.
evalOnFailureLimitContinues(c, error) ==
    LET c1 == evalShowLimitWarning(c, error) IN
    IF error.limitInfo # NoLimitInfo
    THEN evalTryCandidate(c1, c.i + 1)
    ELSE IF c.i = Len(c.availableProviders) - 1
         THEN [c1 EXCEPT !.state = "Failed", !.error = AllProvidersFailed(error.message)]
         ELSE evalTryCandidate(c1, c.i + 1)

\* The catch block.
evalOnFailure(c, error) ==
    LET c1 == evalShowLimitWarning(c, error) IN
    IF c.i = Len(c.availableProviders) - 1
    THEN [c1 EXCEPT !.state = "Failed", !.error = AllProvidersFailed(error.message)]
    ELSE evalTryCandidate(c1, c.i + 1)

\* The call resumed by the settlement of the attempt it awaits.
evalResume(c, outcome) ==
    LET provider == c.availableProviders[c.i + 1]
        c1 == [c EXCEPT !.inFlight = @ - 1,
                        !.settled = Append(@, Settled(provider, outcome))]
    IN IF outcome.ok THEN evalOnSuccess(c1, outcome) ELSE evalOnFailure(c1, outcome)

----------------------------------------------------------------------------
(* generateContentWithBestAvailable                                        *)

genProviderPriority ==
    LET availableKeys == hasApiKeys IN
    << [name      |-> "gemini",
        available |-> availableKeys.gemini
                      /\ AIProviderManager_isProviderAvailable("gemini")] >>

\* Variant: the priority list is used without filtering on `available`.
genAvailableProvidersUnfiltered == genProviderPriority

genAvailableProviders == SelectSeq(genProviderPriority, IsAvailableEntry)

genTryCandidate(c, i) ==
    IF i < Len(c.availableProviders)
    THEN LET provider == c.availableProviders[i + 1]
             remainingProviders == Names(Slice(c.availableProviders, i + 1))
         IN [c EXCEPT !.state = "TryingCandidate",
                      !.i = i,
                      !.remainingProviders = remainingProviders,
                      !.invoked = Append(@, provider.name),
                      !.inFlight = @ + 1]
    ELSE [c EXCEPT !.state = "Failed", !.i = i, !.error = UnexpectedGenerate]

genStart(c) ==
    LET availableProviders == genAvailableProviders IN
    IF Len(availableProviders) = 0
    THEN [c EXCEPT !.state = "Failed", !.error = NoProvidersGenerate]
    ELSE genTryCandidate([c EXCEPT !.availableProviders = availableProviders], 0)

genOnSuccess(c, outcome) ==
    [c EXCEPT !.state = "Success", !.result = outcome.response]

\* Variant: content generation never shows the limit warning.
genShowLimitWarningNever(c, error) == c

genShowLimitWarning(c, error) ==
    IF error.limitInfo # NoLimitInfo
    THEN [c EXCEPT !.warnings =
             AIProviderManager_showLimitWarning(@, error.limitInfo, c.remainingProviders)]
    ELSE c

\* Variant: the catch block lacks the last-candidate check.
genOnFailureNoLastCheck(c, error) ==
    genTryCandidate(genShowLimitWarning(c, error), c.i + 1)

genOnFailure(c, error) ==
    LET c1 == genShowLimitWarning(c, error) IN
    IF c.i = Len(c.availableProviders) - 1
    THEN [c1 EXCEPT !.state = "Failed", !.error = AllProvidersFailed(error.message)]
    ELSE genTryCandidate(c1, c.i + 1)

genResume(c, outcome) ==
    LET provider == c.availableProviders[c.i + 1]
        c1 == [c EXCEPT !.inFlight = @ - 1,
                        !.settled = Append(@, Settled(provider, outcome))]
    IN IF outcome.ok THEN genOnSuccess(c1, outcome) ELSE genOnFailure(c1, outcome)

----------------------------------------------------------------------------
(* The state machine.                                                      *)

NoEnd == [ended |-> FALSE, whileRecording |-> FALSE, restartScheduled |-> FALSE]

NoCleanup == [ran |-> FALSE, whileRecording |-> FALSE, stopCalled |-> FALSE]

\* The state hooks of a PracticeSession before any of its handlers has run.
UseStateDefaults ==
    /\ question = FALSE
    /\ answer = <<>>
    /\ isRecording = FALSE
    /\ submitting = FALSE
    /\ isSubmissionLocked = FALSE
    /\ rendered = [submitting |-> FALSE, isSubmissionLocked |-> FALSE,
                   isRecording |-> FALSE]
    /\ submissions = <<>>
    /\ rejections = 0
    /\ lastTranscript = <<>>

\* The mount effect has run in the first render: initializeSpeechRecognition
\* has set the recognition handlers and the effect has returned its cleanup
\* function; both read the isRecording and recognition of that render.
MountEffect ==
    /\ engine = "idle"
    /\ heard = <<>>
    /\ appended = <<>>
    /\ previous = <<>>
    /\ restartTimers = 0
    /\ handlers = [isRecording |-> isRecording]
    /\ cleanup = [isRecording |-> isRecording, recognition |-> FALSE]
    /\ lastEnd = NoEnd
    /\ lastCleanup = NoCleanup

\* The registry when the application has loaded.
ManagerInit ==
    /\ apiKeys \in [Providers -> BOOLEAN]
    /\ failedProviders = {}
    /\ forcedProvider = NoForcedProvider
    /\ calls = <<>>
    /\ erroredSinceReset = {}

\* The service on its own: no PracticeSession takes part.
Init ==
    /\ ManagerInit
    /\ user = FALSE
    /\ recognition = FALSE
    /\ mounted = FALSE
    /\ UseStateDefaults
    /\ MountEffect

\* Variant: asking for the keys also clears the failed set.
HasApiKeysResets ==
    /\ failedProviders' = {}
    /\ UNCHANGED <<apiKeys, forcedProvider, calls, erroredSinceReset, sessionVars>>

HasApiKeys ==
    /\ hasApiKeys \in [{"gemini"} -> BOOLEAN]
    /\ UNCHANGED vars

GetProviderStatus ==
    /\ DOMAIN getProviderStatus = Providers
    /\ UNCHANGED vars

\* Variant: forcing a provider also clears the failed set.
ForceProviderAlsoResets ==
    \E provider \in ForceArgs :
        /\ forcedProvider' = forceProvider(provider)
        /\ failedProviders' = {}
        /\ UNCHANGED <<apiKeys, calls, erroredSinceReset, sessionVars>>

ForceProvider ==
    \E provider \in ForceArgs :
        /\ forcedProvider' = forceProvider(provider)
        /\ UNCHANGED <<apiKeys, failedProviders, calls, erroredSinceReset, sessionVars>>

ResetFailedProviders ==
    /\ failedProviders' = resetFailedProviders
    /\ erroredSinceReset' = {}
    /\ UNCHANGED <<apiKeys, forcedProvider, calls, sessionVars>>

\* A caller invokes evaluateWithBestAvailable: the call runs to its first
\* await (or throws NoProvidersAvailable).
EvaluateWithBestAvailable ==
    /\ Len(calls) < MaxCalls
    /\ calls' = Append(calls, evalStart(NewCall("evaluate")))
    /\ UNCHANGED <<apiKeys, failedProviders, forcedProvider, erroredSinceReset, sessionVars>>

GenerateContentWithBestAvailable ==
    /\ Len(calls) < MaxCalls
    /\ calls' = Append(calls, genStart(NewCall("generate")))
    /\ UNCHANGED <<apiKeys, failedProviders, forcedProvider, erroredSinceReset, sessionVars>>

\* The provider call awaited by call k settles; the client's own failure
\* handling runs, then the call continues to its next await or to its end.
ProviderSettles(k, outcome) ==
    LET c == calls[k]
        provider == c.availableProviders[c.i + 1].name
    IN /\ c.state = "TryingCandidate"
       /\ failedProviders' =
              AIProviderManager_clientSettles(failedProviders, provider, outcome)
       /\ erroredSinceReset' =
              IF outcome.ok THEN erroredSinceReset ELSE erroredSinceReset \cup {provider}
       /\ calls' = [calls EXCEPT ![k] =
              [(IF c.kind = "evaluate" THEN evalResume(c, outcome)
                                      ELSE genResume(c, outcome))
                  EXCEPT !.failedAfter = failedProviders']]
       /\ UNCHANGED <<apiKeys, forcedProvider, sessionVars>>

EvaluateResumes ==
    \E k \in 1..Len(calls), outcome \in Outcomes :
        calls[k].kind = "evaluate" /\ ProviderSettles(k, outcome)

GenerateResumes ==
    \E k \in 1..Len(calls), outcome \in Outcomes :
        calls[k].kind = "generate" /\ ProviderSettles(k, outcome)

Next ==
    \/ HasApiKeys
    \/ GetProviderStatus
    \/ ForceProvider
    \/ ResetFailedProviders
    \/ EvaluateWithBestAvailable
    \/ GenerateContentWithBestAvailable
    \/ EvaluateResumes
    \/ GenerateResumes

Spec == Init /\ [][Next]_vars
----------------------------------------------------------------------------
(* The two entry points side by side: one evaluateWithBestAvailable call   *)
(* and one generateContentWithBestAvailable call are started from the same *)
(* registry state and their provider calls settle identically.  Each call  *)
(* works on its own copy of the failed set (failedAfter), so that what     *)
(* each leaves behind can be compared.                                     *)

PairStarts ==
    /\ calls = <<>>
    /\ calls' = <<evalStart(NewCall("evaluate")), genStart(NewCall("generate"))>>
    /\ UNCHANGED <<apiKeys, failedProviders, forcedProvider, erroredSinceReset, sessionVars>>

PairSettles ==
    \E outcome \in Outcomes :
        /\ Len(calls) = 2
        /\ calls[1].state = "TryingCandidate"
        /\ calls[2].state = "TryingCandidate"
        /\ LET a == calls[1]
               b == calls[2]
               pa == a.availableProviders[a.i + 1].name
               pb == b.availableProviders[b.i + 1].name
               fa == AIProviderManager_clientSettles(a.failedAfter, pa, outcome)
               fb == AIProviderManager_clientSettles(b.failedAfter, pb, outcome)
           IN /\ calls' = <<[evalResume(a, outcome) EXCEPT !.failedAfter = fa],
                            [genResume(b, outcome) EXCEPT !.failedAfter = fb]>>
              /\ failedProviders' = fa
              /\ erroredSinceReset' =
                     IF outcome.ok THEN erroredSinceReset
                                   ELSE erroredSinceReset \cup {pa}
        /\ UNCHANGED <<apiKeys, forcedProvider, sessionVars>>

PairReturns ==
    /\ Len(calls) = 2
    /\ calls[1].state \in Terminal
    /\ calls[2].state \in Terminal
    /\ calls' = <<>>
    /\ UNCHANGED <<apiKeys, failedProviders, forcedProvider, erroredSinceReset, sessionVars>>

\* A reset between pairs; the forced provider may change at any time.
PairResetFailedProviders == calls = <<>> /\ ResetFailedProviders

NextPair ==
    \/ PairStarts
    \/ PairSettles
    \/ PairReturns
    \/ ForceProvider
    \/ PairResetFailedProviders

SpecPair == Init /\ [][NextPair]_vars

----------------------------------------------------------------------------
(* One call run twice: two calls of the same entry point are started from  *)
(* the same registry state; their provider calls settle alike except that  *)
(* a failure may carry limit info in one run and not in the other.         *)

StartOf(kind) ==
    IF kind = "evaluate" THEN evalStart(NewCall(kind)) ELSE genStart(NewCall(kind))

ResumeOf(c, outcome) ==
    IF c.kind = "evaluate" THEN evalResume(c, outcome) ELSE genResume(c, outcome)

TwinStarts ==
    \E kind \in {"evaluate", "generate"} :
        /\ calls = <<>>
        /\ calls' = <<StartOf(kind), StartOf(kind)>>
        /\ UNCHANGED <<apiKeys, failedProviders, forcedProvider, erroredSinceReset, sessionVars>>

TwinSettles ==
    \E o1, o2 \in Outcomes :
        /\ o1.ok = o2.ok
        /\ o1.response = o2.response
        /\ o1.message = o2.message
        /\ Len(calls) = 2
        /\ calls[1].state = "TryingCandidate"
        /\ calls[2].state = "TryingCandidate"
        /\ LET a == calls[1]
               b == calls[2]
               pa == a.availableProviders[a.i + 1].name
               pb == b.availableProviders[b.i + 1].name
               fa == AIProviderManager_clientSettles(a.failedAfter, pa, o1)
               fb == AIProviderManager_clientSettles(b.failedAfter, pb, o2)
           IN /\ calls' = <<[ResumeOf(a, o1) EXCEPT !.failedAfter = fa],
                            [ResumeOf(b, o2) EXCEPT !.failedAfter = fb]>>
              /\ failedProviders' = fa
              /\ erroredSinceReset' =
                     IF o1.ok THEN erroredSinceReset ELSE erroredSinceReset \cup {pa}
        /\ UNCHANGED <<apiKeys, forcedProvider, sessionVars>>

NextTwin ==
    \/ TwinStarts
    \/ TwinSettles
    \/ PairReturns
    \/ ForceProvider
    \/ PairResetFailedProviders

SpecTwin == Init /\ [][NextTwin]_vars

----------------------------------------------------------------------------
(* Every dispatched provider call eventually settles.                      *)

LiveEvaluateStarts == Len(calls) < MaxLiveCalls /\ EvaluateWithBestAvailable

LiveGenerateStarts == Len(calls) < MaxLiveCalls /\ GenerateContentWithBestAvailable

NextLive ==
    \/ HasApiKeys
    \/ GetProviderStatus
    \/ ForceProvider
    \/ ResetFailedProviders
    \/ LiveEvaluateStarts
    \/ LiveGenerateStarts
    \/ EvaluateResumes
    \/ GenerateResumes

SpecLive ==
    Init /\ [][NextLive]_vars /\ WF_vars(EvaluateResumes) /\ WF_vars(GenerateResumes)

----------------------------------------------------------------------------
(* PracticeSession: the submit button and submitAnswer.                    *)

\* Answer texts, as sequences of characters.
AnswerTexts == {<<>>, <<" ">>, <<"a">>, <<" ", "a", " ">>}

RECURSIVE trimStart(_)
trimStart(s) == IF s # <<>> /\ Head(s) = " " THEN trimStart(Tail(s)) ELSE s

RECURSIVE trimEnd(_)
trimEnd(s) ==
    IF s # <<>> /\ s[Len(s)] = " " THEN trimEnd(SubSeq(s, 1, Len(s) - 1)) ELSE s

\* String.prototype.trim
trim(s) == trimEnd(trimStart(s))

\* Where the try block of submitAnswer may throw before its await.
Faults == {"none", "stop", "storeResponse", "storeQuestion"}

\* Variant: the start of a submission does not take the lock.
StartSubmissionNoLock ==
    [submitting |-> TRUE, isSubmissionLocked |-> isSubmissionLocked]

\* setSubmitting(true); setIsSubmissionLocked(true)
StartSubmission ==
    [submitting |-> TRUE, isSubmissionLocked |-> TRUE]

\* Variant: the finally block releases the lock as well.
FinishSubmissionUnlocks(locked, failed) ==
    [submitting |-> FALSE, isSubmissionLocked |-> FALSE]

\* The catch block (run when the try block threw) and the finally block.
FinishSubmission(locked, failed) ==
    [submitting |-> FALSE,
     isSubmissionLocked |-> IF failed THEN FALSE ELSE locked]

\* The component renders with the state its handlers have just set.
Rerendered ==
    rendered' = [submitting |-> submitting',
                 isSubmissionLocked |-> isSubmissionLocked',
                 isRecording |-> isRecording']

\* The submit button's disabled attribute, as last rendered.
ButtonDisabled ==
    rendered.submitting \/ trim(answer) = <<>> \/ rendered.isSubmissionLocked

\* Variant: the token check is not consulted.
submitAnswerReturnsEarlyNoTokenCheck(canEvaluate) ==
    \/ trim(answer) = <<>>
    \/ ~user \/ ~question
    \/ rendered.submitting \/ rendered.isSubmissionLocked

\* The early returns of submitAnswer; it reads the state captured by the
\* render that created it.
submitAnswerReturnsEarly(canEvaluate) ==
    \/ trim(answer) = <<>>
    \/ ~user \/ ~question
    \/ rendered.submitting \/ rendered.isSubmissionLocked
    \/ ~canEvaluate

\* submitAnswer, from its entry to its await or to its end.
submitAnswer(canEvaluate, fault) ==
    IF submitAnswerReturnsEarly(canEvaluate)
    THEN /\ fault = "none"
         /\ rejections < MaxRejects
         /\ rejections' = rejections + 1
         /\ UNCHANGED <<submitting, isSubmissionLocked, isRecording,
                        forcedProvider, submissions>>
         /\ Rerendered
    ELSE LET start == StartSubmission
             recording == rendered.isRecording /\ recognition
             failed == fault # "none"
             end == IF failed
                    THEN FinishSubmission(start.isSubmissionLocked, TRUE)
                    ELSE start
         IN /\ Len(submissions) < MaxSubmits
            /\ fault = "stop" => recording
            /\ submitting' = end.submitting
            /\ isSubmissionLocked' = end.isSubmissionLocked
            /\ isRecording' =
                   IF recording /\ fault # "stop" THEN FALSE ELSE isRecording
            /\ Rerendered
            /\ forcedProvider' =
                   IF fault = "stop" THEN forcedProvider ELSE forceProvider("gemini")
            /\ submissions' = Append(submissions,
                   [phase |-> IF failed THEN "done" ELSE "awaitingSave",
                    storedResponse |-> fault \notin {"stop", "storeResponse"},
                    storedQuestion |-> fault = "none",
                    saved |-> FALSE,
                    navigate |-> "not called",
                    navigated |-> FALSE,
                    outcome |-> IF failed THEN "error" ELSE "none"])
            /\ UNCHANGED rejections

\* Variant: a rejected save is not caught; it reaches the outer catch block.
afterSaveEvaluationRethrows(saved, navigateThrows) ==
    IF ~saved
    THEN [saved |-> FALSE, navigate |-> "not called", outcome |-> "error"]
    ELSE [saved |-> TRUE,
          navigate |-> IF navigateThrows THEN "threw" ELSE "done",
          outcome |-> IF navigateThrows THEN "error" ELSE "success"]

\* The try block of submitAnswer after the await: a rejected save is caught
\* and logged, then navigate is called.
afterSaveEvaluation(saved, navigateThrows) ==
    [saved |-> saved,
     navigate |-> IF navigateThrows THEN "threw" ELSE "done",
     outcome |-> IF navigateThrows THEN "error" ELSE "success"]

\* A PracticeSession has mounted.
InitSession ==
    /\ ManagerInit
    /\ user \in BOOLEAN
    /\ recognition \in BOOLEAN
    /\ mounted = TRUE
    /\ UseStateDefaults
    /\ MountEffect

\* fetchQuestion, run by the mount effect.
FetchQuestion ==
    /\ mounted
    /\ ~question
    /\ question' \in BOOLEAN
    /\ UNCHANGED <<apiKeys, failedProviders, forcedProvider, calls, erroredSinceReset,
                   user, answer, recognition, isRecording, submitting,
                   isSubmissionLocked, rendered, submissions, rejections, speechVars>>

\* The answer input calls setAnswer.
TypeAnswer ==
    \E text \in AnswerTexts :
        /\ mounted
        /\ question
        /\ answer' = text
        /\ UNCHANGED <<submitting, isSubmissionLocked, isRecording>>
        /\ Rerendered
        /\ UNCHANGED <<apiKeys, failedProviders, forcedProvider, calls,
                       erroredSinceReset, user, question, recognition,
                       submissions, rejections, speechVars>>

\* toggleRecording reads the isRecording of the render that created it.
\* recognition.stop() leaves the engine running until it ends by itself;
\* recognition.start() throws when the engine is already running.
ToggleRecording ==
    /\ mounted
    /\ question
    /\ IF ~recognition
       THEN UNCHANGED <<isRecording, engine, lastTranscript, heard, appended, previous>>
       ELSE IF rendered.isRecording
            THEN /\ isRecording' = FALSE
                 /\ UNCHANGED <<engine, lastTranscript, heard, appended, previous>>
            ELSE /\ lastTranscript' = <<>>
                 /\ appended' = <<>>
                 /\ previous' = lastTranscript
                 /\ \E started \in BOOLEAN :
                       IF started /\ engine = "idle"
                       THEN /\ engine' = "running"
                            /\ heard' = <<>>
                            /\ isRecording' = TRUE
                       ELSE /\ isRecording' = FALSE
                            /\ UNCHANGED <<engine, heard>>
    /\ UNCHANGED <<submitting, isSubmissionLocked>>
    /\ Rerendered
    /\ UNCHANGED <<apiKeys, failedProviders, forcedProvider, calls, erroredSinceReset,
                   user, question, answer, recognition, submissions, rejections,
                   mounted, restartTimers, handlers, cleanup, lastEnd, lastCleanup>>

\* A click on the submit button with a given result of the token check and
\* a given fault: the button is rendered once the question is loaded, a
\* disabled button takes no click, and onClick calls submitAnswer unless
\* the rendered lock is held.
SubmitClickWith(canEvaluate, fault) ==
    /\ mounted
    /\ question
    /\ ~ButtonDisabled
    /\ ~rendered.isSubmissionLocked
    /\ submitAnswer(canEvaluate, fault)
    /\ UNCHANGED <<apiKeys, failedProviders, calls, erroredSinceReset,
                   user, question, answer, recognition, speechVars>>

SubmitClick ==
    \E canEvaluate \in BOOLEAN, fault \in Faults : SubmitClickWith(canEvaluate, fault)

\* saveEvaluation settles and submitAnswer runs to its end.
SaveEvaluationSettles ==
    \E k \in 1..Len(submissions), saved \in BOOLEAN, navigateThrows \in BOOLEAN :
        /\ submissions[k].phase = "awaitingSave"
        /\ LET after == afterSaveEvaluation(saved, navigateThrows)
               end == FinishSubmission(isSubmissionLocked, after.outcome = "error")
           IN /\ submitting' = end.submitting
              /\ isSubmissionLocked' = end.isSubmissionLocked
              /\ submissions' = [submissions EXCEPT ![k] =
                     [@ EXCEPT !.phase = "done",
                               !.saved = after.saved,
                               !.navigate = after.navigate,
                               !.navigated = after.navigate = "done",
                               !.outcome = after.outcome]]
        /\ UNCHANGED <<apiKeys, failedProviders, forcedProvider, calls,
                       erroredSinceReset, user, question, answer, recognition,
                       isRecording, rendered, rejections, speechVars>>

\* State set outside a click or input handler is rendered some time later.
Render ==
    /\ mounted
    /\ rendered # [submitting |-> submitting,
                   isSubmissionLocked |-> isSubmissionLocked,
                   isRecording |-> isRecording]
    /\ UNCHANGED <<submitting, isSubmissionLocked, isRecording>>
    /\ Rerendered
    /\ UNCHANGED <<apiKeys, failedProviders, forcedProvider, calls, erroredSinceReset,
                   user, question, answer, recognition, submissions, rejections,
                   speechVars>>

NextSession ==
    \/ FetchQuestion
    \/ TypeAnswer
    \/ ToggleRecording
    \/ SubmitClick
    \/ SaveEvaluationSettles
    \/ Render

SpecSession == InitSession /\ [][NextSession]_vars

----------------------------------------------------------------------------
(* PracticeSession: speech recognition events and the effect's cleanup.    *)

\* Final transcripts of one result event; empty when no result is final.
Transcripts == {<<>>, <<"a">>, <<"b">>}

\* Variant: only an empty transcript is dropped.
isNewTranscriptNonEmpty(transcript) == transcript # <<>>

\* transcript && transcript !== lastTranscript.current
isNewTranscript(transcript) == transcript # <<>> /\ transcript # lastTranscript

\* recognition.onresult
OnResult ==
    \E transcript \in Transcripts :
        /\ mounted
        /\ engine = "running"
        /\ Len(answer) + 1 + Len(transcript) <= MaxAnswerLen
        /\ IF isNewTranscript(transcript)
           THEN /\ lastTranscript' = transcript
                /\ answer' = answer \o <<" ">> \o transcript
                /\ heard' = Append(heard, transcript)
                /\ appended' = Append(appended, transcript)
           ELSE UNCHANGED <<lastTranscript, answer, heard, appended>>
        /\ UNCHANGED <<apiKeys, failedProviders, forcedProvider, calls,
                       erroredSinceReset, user, question, recognition, isRecording,
                       submitting, isSubmissionLocked, rendered, submissions,
                       rejections, mounted, engine, previous, restartTimers,
                       handlers, cleanup, lastEnd, lastCleanup>>

\* recognition.onerror: recording is switched off; after a network error a
\* restart is scheduled when the handlers' isRecording is true.
OnError ==
    \E error \in {"network", "no-speech"} :
        /\ mounted
        /\ engine = "running"
        /\ isRecording' = FALSE
        /\ restartTimers' =
               IF error = "network" /\ handlers.isRecording
               THEN restartTimers + 1 ELSE restartTimers
        /\ UNCHANGED <<apiKeys, failedProviders, forcedProvider, calls,
                       erroredSinceReset, user, question, answer, recognition,
                       submitting, isSubmissionLocked, rendered, submissions,
                       rejections, mounted, engine, lastTranscript, heard, appended,
                       previous, handlers, cleanup, lastEnd, lastCleanup>>

\* recognition.onend: when the handlers' isRecording is true a restart is
\* scheduled, otherwise recording is switched off.
OnEnd ==
    /\ mounted
    /\ engine = "running"
    /\ engine' = "idle"
    /\ isRecording' = IF handlers.isRecording THEN isRecording ELSE FALSE
    /\ restartTimers' =
           IF handlers.isRecording THEN restartTimers + 1 ELSE restartTimers
    /\ lastEnd' = [ended |-> TRUE,
                   whileRecording |-> isRecording,
                   restartScheduled |-> handlers.isRecording]
    /\ UNCHANGED <<apiKeys, failedProviders, forcedProvider, calls, erroredSinceReset,
                   user, question, answer, recognition, submitting,
                   isSubmissionLocked, rendered, submissions, rejections,
                   mounted, lastTranscript, heard, appended, previous, handlers,
                   cleanup, lastCleanup>>

\* A restart timer set by onend or onerror fires: recognition.start() is
\* called when the handlers' isRecording is true. No step of NextSpeech
\* sets such a timer (C23_NoRestartTimer), so this action is not part of it.
RestartTimerFires ==
    /\ restartTimers > 0
    /\ restartTimers' = restartTimers - 1
    /\ IF handlers.isRecording /\ engine = "idle"
       THEN \E started \in BOOLEAN :
               /\ engine' = IF started THEN "running" ELSE engine
               /\ heard' = IF started THEN <<>> ELSE heard
       ELSE UNCHANGED <<engine, heard>>
    /\ UNCHANGED <<apiKeys, failedProviders, forcedProvider, calls, erroredSinceReset,
                   user, question, answer, recognition, isRecording, submitting,
                   isSubmissionLocked, rendered, submissions, rejections,
                   mounted, lastTranscript, appended, previous, handlers, cleanup,
                   lastEnd, lastCleanup>>

\* The cleanup function returned by the effect.
RunCleanup ==
    lastCleanup' = [ran |-> TRUE,
                    whileRecording |-> isRecording /\ recognition,
                    stopCalled |-> cleanup.isRecording /\ cleanup.recognition]

\* The route's questionId changes: the component renders, the previous
\* effect's cleanup runs and the effect runs again; the handlers are kept,
\* recognitionInitialized being set.
QuestionIdChanges ==
    /\ mounted
    /\ RunCleanup
    /\ question' \in {question, TRUE}
    /\ cleanup' = [isRecording |-> isRecording, recognition |-> recognition]
    /\ UNCHANGED <<submitting, isSubmissionLocked, isRecording>>
    /\ Rerendered
    /\ UNCHANGED <<apiKeys, failedProviders, forcedProvider, calls, erroredSinceReset,
                   user, answer, recognition, submissions, rejections,
                   mounted, engine, lastTranscript, heard, appended, previous,
                   restartTimers, handlers, lastEnd>>

Unmount ==
    /\ mounted
    /\ mounted' = FALSE
    /\ RunCleanup
    /\ UNCHANGED <<apiKeys, failedProviders, forcedProvider, calls, erroredSinceReset,
                   user, question, answer, recognition, isRecording, submitting,
                   isSubmissionLocked, rendered, submissions, rejections,
                   engine, lastTranscript, heard, appended, previous, restartTimers,
                   handlers, cleanup, lastEnd>>

NextSpeech ==
    \/ FetchQuestion
    \/ ToggleRecording
    \/ OnResult
    \/ OnError
    \/ OnEnd
    \/ Render
    \/ QuestionIdChanges
    \/ Unmount

SpecSpeech == InitSession /\ [][NextSpeech]_vars

----------------------------------------------------------------------------
(* Properties.                                                             *)

CallIds == 1..Len(calls)

Range(seq) == {seq[j] : j \in 1..Len(seq)}

CandidateNames(c) == Names(c.availableProviders)

\* The providers the entry point of call c lists in its priority order.
Configured(c) ==
    IF c.kind = "evaluate" THEN Range(Names(evalProviderPriority))
                           ELSE Range(Names(genProviderPriority))

\* C1: in evaluateWithBestAvailable, as soon as one candidate's evaluation
\* call succeeds the call returns that candidate's response, and no later
\* candidate is invoked; every candidate before it had failed.
C1_FirstSuccessWins ==
    \A k \in CallIds :
        LET c == calls[k] IN
        c.kind = "evaluate" =>
            \A j \in 1..Len(c.settled) :
                c.settled[j].ok =>
                    /\ c.state = "Success"
                    /\ c.result = c.settled[j].response
                    /\ c.settled[j].name = c.availableProviders[j].name
                    /\ j = Len(c.settled)
                    /\ c.invoked = SubSeq(CandidateNames(c), 1, j)
                    /\ c.inFlight = 0
                    /\ \A h \in 1..(j - 1) : ~c.settled[h].ok

C1_Witness ==
    \E k \in CallIds :
        /\ calls[k].kind = "evaluate"
        /\ calls[k].state = "Success"
        /\ calls[k].result = "r2"
        /\ calls[k].settled[Len(calls[k].settled)].ok

\* C2: if every candidate of an evaluateWithBestAvailable call fails, each
\* candidate was attempted exactly once, in priority order, and the call
\* fails with AllProvidersFailed carrying the last attempt's error message.
C2_AllFailLastError ==
    \A k \in CallIds :
        LET c == calls[k]
            n == Len(c.availableProviders)
        IN (/\ c.kind = "evaluate"
            /\ n > 0
            /\ Len(c.settled) = n
            /\ \A j \in 1..n : ~c.settled[j].ok)
           => /\ c.invoked = CandidateNames(c)
              /\ \A j \in 1..n : c.settled[j].name = c.invoked[j]
              /\ c.state = "Failed"
              /\ c.error.kind = "AllProvidersFailed"
              /\ c.error.lastError = c.settled[n].message

C2_Witness ==
    \E k \in CallIds :
        /\ calls[k].kind = "evaluate"
        /\ calls[k].state = "Failed"
        /\ calls[k].error = AllProvidersFailed("timeout")
        /\ calls[k].invoked = <<"gemini">>

\* C3: if at the start of an evaluateWithBestAvailable call no configured
\* provider is available (no credential, or in the failed set), the call
\* fails with NoProvidersAvailable and invokes no provider client.
C3_NoProvidersAvailable ==
    \A k \in CallIds :
        LET c == calls[k] IN
        (/\ c.kind = "evaluate"
         /\ \A p \in Configured(c) : ~apiKeys[p] \/ p \in c.startFailed)
        => /\ c.state = "Failed"
           /\ c.error.kind = "NoProvidersAvailable"
           /\ c.invoked = <<>>
           /\ c.inFlight = 0

C3_Witness ==
    \E k \in CallIds :
        /\ calls[k].kind = "evaluate"
        /\ apiKeys["gemini"]
        /\ "gemini" \in calls[k].startFailed
        /\ calls[k].error = NoProvidersEvaluate

\* C4: whenever a provider attempt fails inside an orchestration call, with
\* a limit or a non-limit error, that provider is in the failed set (and is
\* reported failed by getProviderStatus) at the moment the call finishes.
C4_FailedAttemptMarked ==
    [][\A k \in CallIds :
          (calls[k].state = "TryingCandidate" /\ calls'[k].state \in Terminal)
          => \A j \in 1..Len(calls'[k].settled) :
                ~calls'[k].settled[j].ok
                => /\ calls'[k].settled[j].name \in failedProviders'
                   /\ getProviderStatus'[calls'[k].settled[j].name].failed]_vars

C4_Witness ==
    \E k \in CallIds :
        /\ calls[k].state = "Failed"
        /\ calls[k].error = AllProvidersFailed("timeout")
        /\ calls[k].settled[1].limitInfo = NoLimitInfo
        /\ calls[k].availableProviders = <<[name |-> "gemini", available |-> TRUE]>>
        /\ getProviderStatus["gemini"].failed

\* C5: once a provider's attempt has failed, every orchestration call (of
\* either entry point) that starts before a reset leaves it out of its
\* candidate list and never invokes it, and getProviderStatus reports it
\* unavailable until the reset.
C5_FailureSticky ==
    /\ \A k \in CallIds :
          \A p \in calls[k].startErrored :
              /\ p \notin Range(CandidateNames(calls[k]))
              /\ p \notin Range(calls[k].invoked)
    /\ \A p \in erroredSinceReset : ~getProviderStatus[p].available

C5_Witness ==
    \E k1, k2 \in CallIds :
        /\ k1 < k2
        /\ calls[k1].settled # <<>>
        /\ ~calls[k1].settled[1].ok
        /\ apiKeys["gemini"]
        /\ calls[k2].startErrored = {"gemini"}
        /\ calls[k2].kind = "generate"
        /\ calls[k2].invoked = <<>>
        /\ ~getProviderStatus["gemini"].available

\* C6: after resetFailedProviders, a provider that had been marked failed
\* reports failed: false, and, if its credential is present, is again in
\* the candidate list of the next orchestration call.
C6_ResetRestores ==
    /\ \A p \in Providers :
          p \notin erroredSinceReset => ~getProviderStatus[p].failed
    /\ \A k \in CallIds :
          \A p \in Configured(calls[k]) :
              (apiKeys[p] /\ p \notin calls[k].startErrored)
              => /\ p \in Range(CandidateNames(calls[k]))
                 /\ p \in Range(calls[k].invoked)

C6_Witness ==
    \E k \in CallIds :
        /\ "gemini" \in calls[k].startEverErrored
        /\ "gemini" \notin calls[k].startErrored
        /\ calls[k].invoked = <<"gemini">>
        /\ calls[k].state = "Success"

\* The warnings call c must have shown: one per failed attempt that carried
\* limit info, with the candidates after it.
LimitFailures(c) ==
    SelectSeq([j \in 1..Len(c.settled) |-> j],
              LAMBDA j : ~c.settled[j].ok /\ c.settled[j].limitInfo # NoLimitInfo)

ExpectedWarnings(c) ==
    LET at == LimitFailures(c) IN
    [n \in 1..Len(at) |->
        [limitInfo |-> c.settled[at[n]].limitInfo,
         remaining |-> SubSeq(CandidateNames(c), at[n] + 1, Len(c.availableProviders))]]

\* C7: showLimitWarning is invoked exactly once for each failed attempt that
\* carries LimitInfo, with that info and the not yet attempted candidates in
\* priority order, and never for a failure without LimitInfo.
C7_LimitWarnings ==
    \A k \in CallIds : calls[k].warnings = ExpectedWarnings(calls[k])

C7_Witness ==
    \E k1, k2 \in CallIds :
        /\ calls[k1].warnings = <<[limitInfo |-> "rate-limit", remaining |-> <<>>]>>
        /\ calls[k2].state = "Failed"
        /\ calls[k2].settled # <<>>
        /\ calls[k2].warnings = <<>>

\* C8: a call started while a provider is forced invokes only that
\* provider's client; if the forced provider is unavailable at the start,
\* the call fails with NoProvidersAvailable and invokes no client.
C8_ForcedProviderOnly ==
    \A k \in CallIds :
        LET c == calls[k]
            forced == c.startForced
        IN forced # NoForcedProvider =>
            /\ Range(c.invoked) \subseteq {forced}
            /\ (apiKeys[forced] /\ forced \notin c.startFailed)
               => c.invoked = <<forced>>
            /\ (~apiKeys[forced] \/ forced \in c.startFailed)
               => /\ c.state = "Failed"
                  /\ c.error.kind = "NoProvidersAvailable"
                  /\ c.invoked = <<>>

C8_Witness ==
    \E k1, k2 \in CallIds :
        /\ calls[k1].startForced = "gemini"
        /\ calls[k1].invoked = <<"gemini">>
        /\ calls[k2].startForced = "gemini"
        /\ calls[k2].error.kind = "NoProvidersAvailable"

\* C9: within one call at most one provider attempt is in flight, the call
\* does not move on while it is, and an attempt after the first is started
\* only once the one before it has settled with a failure.
C9_Sequential ==
    \A k \in CallIds :
        LET c == calls[k] IN
        /\ c.inFlight \in {0, 1}
        /\ c.inFlight = 1 <=> c.state = "TryingCandidate"
        /\ Len(c.invoked) = Len(c.settled) + c.inFlight
        /\ \A j \in 2..Len(c.invoked) :
              Len(c.settled) >= j - 1 /\ ~c.settled[j - 1].ok

C9_Witness ==
    \E k1, k2 \in CallIds :
        /\ k1 # k2
        /\ calls[k1].state = "TryingCandidate"
        /\ calls[k1].inFlight = 1
        /\ calls[k2].state = "TryingCandidate"

\* C10: started from the same credentials, failed set and forced provider,
\* and with each provider call settling identically, the two entry points
\* have the same candidates, attempt the same providers in the same order,
\* show the same limit warnings, leave the same failed set and end in the
\* same kind of outcome with the same last error message.
C10_SameAlgorithm ==
    Len(calls) = 2 =>
        LET a == calls[1]
            b == calls[2]
        IN /\ a.kind = "evaluate" /\ b.kind = "generate"
           /\ CandidateNames(a) = CandidateNames(b)
           /\ a.invoked = b.invoked
           /\ a.settled = b.settled
           /\ a.warnings = b.warnings
           /\ a.failedAfter = b.failedAfter
           /\ a.state = b.state
           /\ a.error.kind = b.error.kind
           /\ a.error.lastError = b.error.lastError

C10_Witness ==
    /\ Len(calls) = 2
    /\ calls[1].error = AllProvidersFailed("quota exceeded")
    /\ calls[2].error = AllProvidersFailed("quota exceeded")
    /\ calls[2].warnings = <<[limitInfo |-> "rate-limit", remaining |-> <<>>]>>
    /\ calls[2].failedAfter = {"gemini"}

\* C11: no operation other than resetFailedProviders ever removes a
\* provider from the failed set.
C11_FailedSetMonotone ==
    [][(failedProviders \subseteq failedProviders') \/ ResetFailedProviders]_vars

C11_Witness ==
    /\ failedProviders = {"gemini"}
    /\ forcedProvider = "gemini"
    /\ Len(calls) = 2
    /\ calls[1].state = "Failed"
    /\ calls[2].state = "Failed"

\* C12: the only failures a caller sees are NoProvidersAvailable and the
\* aggregate AllProvidersFailed, the latter only once the last candidate
\* has failed; a failure of an earlier candidate makes the call go on to
\* the next candidate.
C12_OnlyAggregateSurfaces ==
    \A k \in CallIds :
        LET c == calls[k]
            n == Len(c.availableProviders)
        IN /\ c.state = "Failed"
              => c.error.kind \in {"NoProvidersAvailable", "AllProvidersFailed"}
           /\ c.error.kind = "NoProvidersAvailable" => c.settled = <<>>
           /\ c.error.kind = "AllProvidersFailed"
              => Len(c.settled) = n /\ ~c.settled[n].ok
           /\ \A j \in 1..Len(c.settled) :
                 (j < n /\ ~c.settled[j].ok) => Len(c.invoked) > j

C12_Witness ==
    \E k \in CallIds :
        /\ calls[k].kind = "generate"
        /\ calls[k].state = "Failed"
        /\ calls[k].error.kind = "AllProvidersFailed"
        /\ calls[k].error.lastError = "quota exceeded"

\* C13: within one orchestration call each provider's client is invoked at
\* most once.
C13_NoRetry ==
    \A k \in CallIds :
        \A j1, j2 \in 1..Len(calls[k].invoked) :
            calls[k].invoked[j1] = calls[k].invoked[j2] => j1 = j2

C13_Witness ==
    \E k \in CallIds :
        /\ calls[k].state = "Failed"
        /\ calls[k].invoked = <<"gemini">>
        /\ Len(calls[k].settled) = 1
        /\ calls[k].settled[1].limitInfo = "rate-limit"

\* The priority order of call c's entry point, filtered by the credentials
\* and the failed set as they were when the call started.
StaticFiltered(c) ==
    LET priority == IF c.kind = "evaluate" THEN Names(evalProviderPriority)
                                           ELSE Names(genProviderPriority)
    IN SelectSeq(priority, LAMBDA p : apiKeys[p] /\ p \notin c.startFailed)

\* C15: availability is derived: a provider is available, for
\* isProviderAvailable and for getProviderStatus, exactly when it has a
\* credential and is not in the failed set; the candidate list of a call is
\* computed from the credentials and the failed set at the call's start.
C15_AvailabilityDerived ==
    /\ \A p \in Providers :
          /\ getProviderStatus[p].available
                <=> (apiKeys[p] /\ p \notin failedProviders)
          /\ AIProviderManager_isProviderAvailable(p)
                <=> (apiKeys[p] /\ p \notin failedProviders)
          /\ getProviderStatus[p].hasKey <=> apiKeys[p]
          /\ getProviderStatus[p].failed <=> p \in failedProviders
    /\ \A k \in CallIds : CandidateNames(calls[k]) = StaticFiltered(calls[k])

C15_Witness ==
    \E k1, k2 \in CallIds :
        /\ calls[k1].availableProviders # <<>>
        /\ calls[k2].availableProviders = <<>>
        /\ apiKeys["gemini"]
        /\ ~getProviderStatus["gemini"].available
        /\ getProviderStatus["gemini"].failed

\* C17: once forcing is undone with forceProvider('auto') or
\* forceProvider(null), a call behaves as if no provider had ever been
\* forced: its candidates are the static priority order filtered by
\* availability, and the first of them is attempted.
C17_AutoRestoresDefault ==
    \A k \in CallIds :
        LET c == calls[k] IN
        c.startForced \notin Providers =>
            /\ c.startForced = NoForcedProvider
            /\ CandidateNames(c) = StaticFiltered(c)
            /\ StaticFiltered(c) # <<>> => c.invoked[1] = StaticFiltered(c)[1]

C17_Witness ==
    \E k1, k2 \in CallIds :
        /\ k1 < k2
        /\ calls[k1].startForced = "gemini"
        /\ calls[k2].startForced = NoForcedProvider
        /\ calls[k2].invoked = <<"gemini">>

\* C18: hasApiKeys and getProviderStatus change nothing: the failed set, the
\* forced provider, the credentials and the calls (hence the provider
\* clients invoked) are as before.
C18_QueriesSideEffectFree ==
    [][(HasApiKeys \/ GetProviderStatus)
       => UNCHANGED <<failedProviders, forcedProvider, apiKeys, calls>>]_vars

C18_Witness ==
    /\ ENABLED HasApiKeys
    /\ ENABLED GetProviderStatus
    /\ failedProviders # {}
    /\ forcedProvider # NoForcedProvider
    /\ \E k \in CallIds : calls[k].state = "TryingCandidate"

\* C14: two runs of the same call that differ only in whether failures
\* carry limit info attempt the same providers in the same order, leave the
\* same failed set and end with the same result or error; the warnings
\* shown are the only difference.
C14_LimitInfoOnlyDecorates ==
    Len(calls) = 2 =>
        LET a == calls[1]
            b == calls[2]
        IN /\ a.kind = b.kind
           /\ CandidateNames(a) = CandidateNames(b)
           /\ a.invoked = b.invoked
           /\ Len(a.settled) = Len(b.settled)
           /\ \A j \in 1..Len(a.settled) :
                 /\ a.settled[j].ok = b.settled[j].ok
                 /\ a.settled[j].message = b.settled[j].message
           /\ a.failedAfter = b.failedAfter
           /\ a.state = b.state
           /\ a.result = b.result
           /\ a.error = b.error
           /\ a.warnings = ExpectedWarnings(a)
           /\ b.warnings = ExpectedWarnings(b)

C14_Witness ==
    /\ Len(calls) = 2
    /\ calls[1].settled # <<>>
    /\ calls[1].settled[1].limitInfo = "rate-limit"
    /\ calls[2].settled[1].limitInfo = NoLimitInfo
    /\ calls[1].warnings # calls[2].warnings
    /\ calls[1].error = AllProvidersFailed("timeout")
    /\ calls[2].error = AllProvidersFailed("timeout")

\* C16: a call starts in TryingCandidate(0) or fails at once; from
\* TryingCandidate(i) it goes to a terminal state or to
\* TryingCandidate(i+1); a terminal state is never left; and, every
\* dispatched provider call settling eventually, each call reaches a
\* terminal state.
C16_StateMachine ==
    /\ [][/\ \A k \in 1..Len(calls) :
                LET c == calls[k]
                    d == calls'[k]
                IN /\ c.state \in Terminal => d = c
                   /\ (c.state = "TryingCandidate" /\ d # c)
                      => \/ d.state \in Terminal
                         \/ d.state = "TryingCandidate" /\ d.i = c.i + 1
          /\ \A k \in (Len(calls) + 1)..Len(calls') :
                \/ calls'[k].state = "Failed"
                \/ calls'[k].state = "TryingCandidate" /\ calls'[k].i = 0]_vars
    /\ \A k \in 1..MaxLiveCalls :
          (Len(calls) >= k) ~> (Len(calls) >= k /\ calls[k].state \in Terminal)

C16_Witness ==
    \E k \in CallIds :
        /\ calls[k].state = "Failed"
        /\ calls[k].invoked # <<>>
        /\ Len(calls[k].settled) = Len(calls[k].invoked)
        /\ calls[k].i = Len(calls[k].availableProviders) - 1

SubmissionIds == 1..Len(submissions)

\* C19: of two submissions that stored the response, or that both
\* navigated, an earlier one has failed with an error before the later one
\* started; so no submission starts while another awaits the history save.
C19_NoDoubleSubmission ==
    \A j, k \in SubmissionIds :
        j < k =>
            /\ (submissions[j].storedResponse /\ submissions[k].storedResponse)
               => \E m \in j..(k - 1) : submissions[m].outcome = "error"
            /\ (submissions[j].navigated /\ submissions[k].navigated)
               => \E m \in j..(k - 1) : submissions[m].outcome = "error"
            /\ submissions[j].phase = "done"

C19_Witness ==
    /\ Len(submissions) = 2
    /\ submissions[1].storedResponse
    /\ submissions[1].outcome = "error"
    /\ submissions[2].storedResponse
    /\ submissions[2].phase = "awaitingSave"
    /\ ~ENABLED SubmitClick

\* C20: when no submission is awaiting its save, submitting is false; after
\* a successful submission the lock is held; and the lock is free only if
\* every submission so far has failed with an error.
C20_LockLifecycle ==
    /\ (\A k \in SubmissionIds : submissions[k].phase = "done") => ~submitting
    /\ (\E k \in SubmissionIds : submissions[k].outcome = "success")
       => isSubmissionLocked
    /\ ~isSubmissionLocked
       => \A k \in SubmissionIds : submissions[k].outcome = "error"

C20_Witness ==
    /\ Len(submissions) = 2
    /\ submissions[1].outcome = "error"
    /\ submissions[2].outcome = "success"
    /\ submissions[2].navigated
    /\ ~submitting
    /\ isSubmissionLocked
    /\ rendered.isSubmissionLocked

\* C26: the errors thrown after the candidate loops are never raised: a
\* call that has ended returned a provider's response, or threw
\* NoProvidersAvailable before any attempt, or threw AllProvidersFailed
\* with the message of its last candidate's error.
C26_FallThroughUnreachable ==
    \A k \in CallIds :
        LET c == calls[k] IN
        /\ c.error \notin {UnexpectedEvaluate, UnexpectedGenerate}
        /\ c.error.kind # "FallThrough"
        /\ c.state = "Success" => c.result \in Responses /\ c.error = NoError
        /\ c.state = "Failed" =>
              \/ c.error \in {NoProvidersEvaluate, NoProvidersGenerate} /\ c.invoked = <<>>
              \/ /\ c.settled # <<>>
                 /\ c.error = AllProvidersFailed(c.settled[Len(c.settled)].message)
                 /\ c.i = Len(c.availableProviders) - 1

C26_Witness ==
    \E k1, k2 \in CallIds :
        /\ calls[k1].kind = "generate"
        /\ calls[k1].state = "Failed"
        /\ calls[k1].error = AllProvidersFailed("quota exceeded")
        /\ calls[k2].kind = "evaluate"
        /\ calls[k2].state = "Failed"
        /\ calls[k2].error = NoProvidersEvaluate

\* C27: with calls interleaved, a call invokes no provider that was in the
\* failed set, or had no credential, when the call computed its candidate
\* list, and no provider whose attempt failed since the last reset is
\* missing from the failed set; an attempt dispatched before another call
\* marked its provider failed stays in flight.
C27_InterleavedCalls ==
    /\ \A k \in CallIds :
          \A p \in Range(calls[k].invoked) :
              /\ p \notin calls[k].startFailed
              /\ apiKeys[p]
              /\ p \in Range(CandidateNames(calls[k]))
    /\ erroredSinceReset \subseteq failedProviders

C27_Witness ==
    \E k1, k2 \in CallIds :
        /\ k1 # k2
        /\ calls[k1].state = "Failed"
        /\ calls[k1].settled # <<>>
        /\ calls[k2].state = "TryingCandidate"
        /\ calls[k2].invoked = <<"gemini">>
        /\ calls[k2].inFlight = 1
        /\ "gemini" \in failedProviders
        /\ "gemini" \notin calls[k2].startFailed

\* The conditions under which a submitAnswer call is to be rejected.
ShouldReject(canEvaluate) ==
    \/ trim(answer) = <<>>
    \/ ~user \/ ~question
    \/ submitting \/ isSubmissionLocked
    \/ ~canEvaluate

\* C21: a submitAnswer call made with an empty or blank answer, without
\* user or question, during a submission or under the lock, or with a failed
\* token check returns early; and a call that returns early leaves
\* submitting, the lock, the forced provider and the record of stored
\* responses and navigations as they were.
C21_RejectedSubmitChangesNothing ==
    [][/\ \A canEvaluate \in BOOLEAN, fault \in Faults :
              (SubmitClickWith(canEvaluate, fault) /\ ShouldReject(canEvaluate))
              => rejections' = rejections + 1
       /\ rejections' # rejections
          => UNCHANGED <<submitting, isSubmissionLocked, forcedProvider, submissions>>]_vars

C21_Witness ==
    /\ rejections > 0
    /\ user
    /\ question
    /\ trim(answer) # <<>>
    /\ submissions = <<>>
    /\ ~submitting
    /\ ~isSubmissionLocked
    /\ forcedProvider = NoForcedProvider

\* C22: a submission whose history save failed has stored the response and
\* the question, has called navigate, and ends in error only if navigate
\* itself threw; otherwise it has navigated and the lock is held.
C22_SaveFailureDoesNotAbort ==
    \A k \in SubmissionIds :
        LET sub == submissions[k] IN
        (sub.phase = "done" /\ sub.storedQuestion /\ ~sub.saved) =>
            /\ sub.storedResponse
            /\ sub.navigate # "not called"
            /\ sub.outcome = "error" => sub.navigate = "threw"
            /\ sub.navigate = "done" =>
                  /\ sub.navigated
                  /\ sub.outcome = "success"
                  /\ isSubmissionLocked

C22_Witness ==
    /\ Len(submissions) = 1
    /\ submissions[1].phase = "done"
    /\ ~submissions[1].saved
    /\ submissions[1].storedResponse
    /\ submissions[1].navigated
    /\ isSubmissionLocked
    /\ ~submitting

\* C23: when the engine ends while recording is on, a restart is scheduled;
\* when it ends while recording is off, none is.
C23_AutoRestart ==
    lastEnd.ended => (lastEnd.whileRecording <=> lastEnd.restartScheduled)

\* No restart timer is ever set: the handlers read the isRecording of the
\* first render.
C23_NoRestartTimer == restartTimers = 0 /\ ~handlers.isRecording

\* C24: when the effect's cleanup runs while recording is on, it calls
\* recognition.stop().
C24_StopOnUnmount ==
    (lastCleanup.ran /\ lastCleanup.whileRecording) => lastCleanup.stopCalled

NoRepeat(seq) ==
    /\ \A j \in 1..Len(seq) : seq[j] # <<>>
    /\ \A j \in 1..(Len(seq) - 1) : seq[j] # seq[j + 1]

====
